---- MODULE Spec2Model ----
(***************************************************************************)
(* Model of the query compiler of query_parse_iterative.py: the removal of *)
(* comments, the grammar and its parse actions, the iterative breadth-     *)
(* first Rewriter (flatten AND, distribute AND over OR), the categorizer   *)
(* and the report printed by print_summary.                                *)
(*                                                                         *)
(* ASTNode objects live in a heap: a sequence of records, a node's         *)
(* identity (Python's id()) is its index.  Nodes are mutated in place and  *)
(* shared between parents exactly as the Python objects are.  A str is a   *)
(* sequence of characters.                                                 *)
(***************************************************************************)
EXTENDS Integers, Sequences, FiniteSets, TLC

\* ---------------------------------------------------------------- bounds
\* Input trees with distinct TERM values: at most MaxNodes nodes; those with
\* NOT nodes have at most MaxNotNodes nodes, at most MaxNot of them NOT nodes.
MaxNodes == 11
MaxNotNodes == 10
MaxNot == 1
\* Input trees whose TERM values repeat (the first NumTerms of TermValues): at most
\* MaxCatNodes nodes; those with NOT nodes have at most MaxCatNotNodes nodes,
\* at most MaxCatNot of them NOT nodes.
MaxCatNodes == 7
MaxCatNotNodes == 6
MaxCatNot == 2
NumTerms == 3
\* pass_limit is 0, SmallPassLimit or the default.
SmallPassLimit == 1
\* Raw queries with comment markers are made of at most MaxPieces pieces.
MaxPieces == 5
\* Queries written from an expression: the expression has at most
\* MaxQueryNodes nodes.
MaxQueryNodes == 7
\* Queries over operands of every kind: the expression has at most
\* MaxTermQueryNodes nodes.
MaxTermQueryNodes == 3
\* Two pipelines: the query of the first has at most MaxFirstNodes nodes,
\* the query of the second at most MaxSecondNodes nodes.
MaxFirstNodes == 5
MaxSecondNodes == 3
\* The rewrite loop alone: parse results of at most MaxLiveNodes nodes, at most
\* MaxLiveNot of them NOT nodes, and the pass limit LivePassLimit.
MaxLiveNodes == 11
MaxLiveNot == 1
LivePassLimit == 8
\* Both rewrite variants: parse results of at most MaxBothNodes nodes; those
\* with NOT nodes have at most MaxBothNotNodes nodes, at most MaxBothNot of
\* them NOT nodes.
MaxBothNodes == 9
MaxBothNotNodes == 8
MaxBothNot == 1
\* Normalization and categories: parse results of at most MaxNormNodes nodes,
\* at most MaxNormNot of them NOT nodes.
MaxNormNodes == 12
MaxNormNot == 1
DefaultPassLimit == 1000

None == 0

Range(s) == {s[i] : i \in DOMAIN s}

\* ---------------------------------------------------------------- str
\* The characters of the queries considered, in code point order.
Alphabet == <<"\n", " ", "\"", "(", ")", "/", "3", "<", ">",
              "A", "B", "D", "E", "N", "O", "R", "T",
              "a", "b", "c", "d", "e", "f", "n", "o", "r", "t", "{", "}">>

\* The place of a character in the order of code points.
Code(c) == CHOOSE i \in 1..Len(Alphabet) : Alphabet[i] = c

UpperCase == <<"A", "B", "D", "E", "N", "O", "R", "T">>
LowerCase == <<"a", "b", "d", "e", "n", "o", "r", "t">>

\* str.lower() and str.upper()
lower(s) ==
    [i \in 1..Len(s) |->
        IF \E k \in 1..Len(UpperCase) : UpperCase[k] = s[i]
        THEN LowerCase[CHOOSE k \in 1..Len(UpperCase) : UpperCase[k] = s[i]]
        ELSE s[i]]

upper(s) ==
    [i \in 1..Len(s) |->
        IF \E k \in 1..Len(LowerCase) : LowerCase[k] = s[i]
        THEN UpperCase[CHOOSE k \in 1..Len(LowerCase) : LowerCase[k] = s[i]]
        ELSE s[i]]

\* x < y on str: the first position where they differ decides, a proper
\* prefix is smaller.
RECURSIVE StrLess(_, _)
StrLess(x, y) ==
    IF y = <<>> THEN FALSE
    ELSE IF x = <<>> THEN TRUE
    ELSE IF Head(x) = Head(y) THEN StrLess(Tail(x), Tail(y))
    ELSE Code(Head(x)) < Code(Head(y))

StrLeq(x, y) == x = y \/ StrLess(x, y)

\* ---------------------------------------------------------------- ASTNode
\* ASTNode.__init__: children defaults to the empty list, value to None.
ASTNode(ntype, children, value) ==
    [ntype |-> ntype, children |-> children, value |-> value]

\* ------------------------------------------------- parse results (shapes)
\* The trees the parse actions build: TERM leaves, NOT with one child and
\* strictly binary AND / OR nodes, as nested tuples.
RECURSIVE Shapes(_, _)
Shapes(b, n) ==
    (IF b = 0 /\ n = 0 THEN {<<"TERM">>} ELSE {})
    \cup (IF n > 0 THEN {<<"NOT", s>> : s \in Shapes(b, n - 1)} ELSE {})
    \cup (IF b > 0
          THEN UNION { UNION { {<<op, l, r>> : op \in {"AND", "OR"},
                                               l \in Shapes(bl, nl),
                                               r \in Shapes(b - 1 - bl, n - nl)}
                               : nl \in 0..n }
                       : bl \in 0..(b - 1) }
          ELSE {})

NumTermNodes(h) == Cardinality({i \in DOMAIN h : h[i].ntype = "TERM"})

\* Lay a parse result out in the heap; the subtree's root is the last node.
\* The k-th TERM leaf (left to right) gets the value lab[k].
RECURSIVE Build(_, _, _)
Build(t, h, lab) ==
    IF t[1] = "TERM"
    THEN Append(h, ASTNode("TERM", <<>>, lab[NumTermNodes(h) + 1]))
    ELSE IF t[1] = "NOT"
    THEN LET h1 == Build(t[2], h, lab)
         IN  Append(h1, ASTNode("NOT", <<Len(h1)>>, None))
    ELSE LET h1 == Build(t[2], h, lab)
             h2 == Build(t[3], h1, lab)
         IN  Append(h2, ASTNode(t[1], <<Len(h1), Len(h2)>>, None))

\* The tree below node n as a value (structure only, identities forgotten).
RECURSIVE TreeOf(_, _)
TreeOf(h, n) ==
    [ntype |-> h[n].ntype, value |-> h[n].value,
     children |-> [i \in 1..Len(h[n].children) |-> TreeOf(h, h[n].children[i])]]

\* A tree as a value: what the parse actions return before the nodes are
\* laid out in the heap, and what TreeOf gives.
Tree(ntype, children, value) == [ntype |-> ntype, value |-> value, children |-> children]

\* The ASTNode objects of a tree value, created children first; the root is
\* the last node.
RECURSIVE Store(_, _)
RECURSIVE StoreEach(_, _, _)
Store(t, h) ==
    LET hc == StoreEach(t.children, h, <<>>)
    IN  Append(hc[1], ASTNode(t.ntype, hc[2], t.value))

\* <<heap, ids of the roots>> after storing the trees ts one after the other.
StoreEach(ts, h, ids) ==
    IF ts = <<>> THEN <<h, ids>>
    ELSE LET h1 == Store(Head(ts), h)
         IN  StoreEach(Tail(ts), h1, Append(ids, Len(h1)))

\* ---------------------------------------------------------------- remove_comments
\* s[i..j]
Slice(s, i, j) == SubSeq(s, i, j)

\* The literal lit begins at position i of s.
At(s, i, lit) == i + Len(lit) - 1 <= Len(s) /\ Slice(s, i, i + Len(lit) - 1) = lit

OpenMarker == <<"<", "<", "<">>
CloseMarker == <<">", ">", ">">>

\* What `.` matches under re.DOTALL: any character.
Dot(c) == TRUE

\* Mutant: `.*` instead of `.*?`: the match runs to the last `>>>`.
MatchComment_Greedy(s, i) ==
    LET ends == {j \in (i + 3)..Len(s) :
                    /\ At(s, j, CloseMarker)
                    /\ \A k \in (i + 3)..(j - 1) : Dot(s[k])}
    IN  IF At(s, i, OpenMarker) /\ ends # {}
        THEN 2 + CHOOSE j \in ends : \A k \in ends : k <= j
        ELSE 0

\* A match of `<<<.*?>>>` beginning at position i: the position of its
\* last character, 0 if there is no match at i.  The lazy `.*?` takes the
\* fewest characters that let `>>>` follow.
MatchComment(s, i) ==
    LET ends == {j \in (i + 3)..Len(s) :
                    /\ At(s, j, CloseMarker)
                    /\ \A k \in (i + 3)..(j - 1) : Dot(s[k])}
    IN  IF At(s, i, OpenMarker) /\ ends # {}
        THEN 2 + CHOOSE j \in ends : \A k \in ends : j <= k
        ELSE 0

\* re.sub(pattern, '', s): the matches are searched from left to right, each
\* search starting where the previous match ended; what lies between the
\* matches is copied.
RECURSIVE re_sub(_, _)
re_sub(s, i) ==
    IF i > Len(s) THEN <<>>
    ELSE IF MatchComment(s, i) > 0 THEN re_sub(s, MatchComment(s, i) + 1)
    ELSE <<s[i]>> \o re_sub(s, i + 1)

remove_comments(query_text) == re_sub(query_text, 1)

\* ---------------------------------------------------------------- grammar
\* setDefaultWhitespaceChars(" \t\r\n"), and \s of the word pattern.
WhiteChars == {" ", "\n"}

\* The characters that may not touch a keyword (pyparsing's identChars).
IdentChars ==
    {UpperCase[k] : k \in 1..Len(UpperCase)} \cup {LowerCase[k] : k \in 1..Len(LowerCase)}
    \cup {"c", "f", "3"}

Digits == {"3"}

RECURSIVE SkipWs(_, _)
SkipWs(s, loc) ==
    IF loc <= Len(s) /\ s[loc] \in WhiteChars THEN SkipWs(s, loc + 1) ELSE loc

\* The result of a parser element at a position: no match, or the position
\* after the match and the token.
NoMatch == [loc |-> 0]
Match(loc, tok) == [loc |-> loc, tok |-> tok]

\* The first position from i on whose character is in the set stop,
\* Len(s) + 1 if there is none.
RECURSIVE Scan(_, _, _)
Scan(s, i, stop) ==
    IF i > Len(s) \/ s[i] \in stop THEN i ELSE Scan(s, i + 1, stop)

\* CaselessKeyword(kw): kw in any letter case, not touching an identifier
\* character on either side.
CaselessKeyword(kw, s, loc0) ==
    LET loc == SkipWs(s, loc0)
        n   == Len(kw)
    IN  IF /\ loc + n - 1 <= Len(s)
           /\ upper(Slice(s, loc, loc + n - 1)) = kw
           /\ (loc + n > Len(s) \/ s[loc + n] \notin IdentChars)
           /\ (loc = 1 \/ s[loc - 1] \notin IdentChars)
        THEN Match(loc + n, kw)
        ELSE NoMatch

NOT_(s, loc) == CaselessKeyword(<<"N", "O", "T">>, s, loc)
AND_(s, loc) == CaselessKeyword(<<"A", "N", "D">>, s, loc)
OR_(s, loc)  == CaselessKeyword(<<"O", "R">>, s, loc)

\* Regex (?i)NEAR/\d+f?
NEAR_(s, loc0) ==
    LET loc  == SkipWs(s, loc0)
        dend == Scan(s, loc + 5, {c \in Range(s) : c \notin Digits})
        fend == IF dend <= Len(s) /\ s[dend] = "f" THEN dend + 1 ELSE dend
    IN  IF /\ loc + 4 <= Len(s)
           /\ upper(Slice(s, loc, loc + 4)) = <<"N", "E", "A", "R", "/">>
           /\ dend > loc + 5
        THEN Match(fend, Slice(s, loc, fend - 1))
        ELSE NoMatch

\* Regex \{[^}]*\}
curly(s, loc0) ==
    LET loc == SkipWs(s, loc0)
        j   == Scan(s, loc + 1, {"}"})
    IN  IF loc <= Len(s) /\ s[loc] = "{" /\ j <= Len(s)
        THEN Match(j + 1, Slice(s, loc, j))
        ELSE NoMatch

\* QuotedString('"', escChar='\\', unquoteResults=True): the phrase may not
\* hold a newline; the token is the text between the quotes.  (No query
\* considered holds a backslash.)
quoted(s, loc0) ==
    LET loc == SkipWs(s, loc0)
        j   == Scan(s, loc + 1, {"\"", "\n"})
    IN  IF loc <= Len(s) /\ s[loc] = "\"" /\ j <= Len(s) /\ s[j] = "\""
        THEN Match(j + 1, Slice(s, loc + 1, j - 1))
        ELSE NoMatch

\* Regex [^\s()"]+
word(s, loc0) ==
    LET loc == SkipWs(s, loc0)
        j   == Scan(s, loc, WhiteChars \cup {"(", ")", "\""})
    IN  IF j > loc THEN Match(j, Slice(s, loc, j - 1)) ELSE NoMatch

term_action(raw) ==
    IF raw # <<>> /\ Head(raw) = "{" /\ raw[Len(raw)] = "}"
    THEN Tree("TERM", <<>>, raw)
    ELSE Tree("TERM", <<>>, lower(raw))

not_action(child) == Tree("NOT", <<child>>, None)
and_action(res, rhs) == Tree("AND", <<res, rhs>>, None)
or_action(res, rhs) == Tree("OR", <<res, rhs>>, None)
near_action(res, rhs) == Tree("AND", <<res, rhs>>, None)

\* base_term = (curly | quoted | word).setParseAction(term_action)
base_term(s, loc) ==
    LET c == curly(s, loc)
        q == quoted(s, loc)
        w == word(s, loc)
        r == IF c.loc > 0 THEN c ELSE IF q.loc > 0 THEN q ELSE w
    IN  IF r.loc > 0 THEN Match(r.loc, term_action(r.tok)) ELSE NoMatch

\* infixNotation(atom, [(NOT_, 1, RIGHT), (NEAR_, 2, LEFT), (AND_, 2, LEFT),
\* (OR_, 2, LEFT)]): one level per operator, each level an alternative of
\* the operator form and of the level below.
\* The level below a binary level, its operator and its parse action.
\* Mutant: NEAR and AND change places in the list of operators.
lastExpr_NearBelowAnd(level) ==
    CASE level = "AND"  -> "NOT"
      [] level = "NEAR" -> "AND"
      [] level = "OR"   -> "NEAR"

lastExpr(level) ==
    CASE level = "NEAR" -> "NOT"
      [] level = "AND"  -> "NEAR"
      [] level = "OR"   -> "AND"

opExpr(level, s, loc) ==
    CASE level = "NEAR" -> NEAR_(s, loc)
      [] level = "AND"  -> AND_(s, loc)
      [] level = "OR"   -> OR_(s, loc)

action(level, res, rhs) ==
    CASE level = "NEAR" -> near_action(res, rhs)
      [] level = "AND"  -> and_action(res, rhs)
      [] level = "OR"   -> or_action(res, rhs)

\* The element of the grammar applied at loc.  The elements are "atom", the
\* unary level "NOT", the binary levels "NEAR", "AND" and "OR" (expr is the
\* level "OR") and, with part = "rest", the repetition
\* (opExpr + lastExpr)[1, ...] of a binary level, res being the operands
\* folded so far: the repetition stops, without consuming the operator,
\* where no operand follows.
RECURSIVE Parse(_, _, _, _, _)
Parse(level, part, s, loc, res) ==
    IF level = "atom"
    THEN \* atom = (base_term | group), group = Suppress("(") + expr + Suppress(")")
         LET b   == base_term(s, loc)
             lp  == SkipWs(s, loc)
             e   == IF lp <= Len(s) /\ s[lp] = "("
                    THEN Parse("OR", "first", s, lp + 1, None)
                    ELSE NoMatch
             rp  == IF e.loc > 0 THEN SkipWs(s, e.loc) ELSE 0
         IN  IF b.loc > 0 THEN b
             ELSE IF e.loc > 0 /\ rp <= Len(s) /\ s[rp] = ")" THEN Match(rp + 1, e.tok)
             ELSE NoMatch
    ELSE IF level = "NOT"
    THEN LET k == NOT_(s, loc)
             r == IF k.loc > 0 THEN Parse("NOT", "first", s, k.loc, None) ELSE NoMatch
         IN  IF r.loc > 0 THEN Match(r.loc, not_action(r.tok))
             ELSE Parse("atom", "first", s, loc, None)
    ELSE IF part = "first"
    THEN LET f == Parse(lastExpr(level), "first", s, loc, None)
         IN  IF f.loc > 0 THEN Parse(level, "rest", s, f.loc, f.tok) ELSE NoMatch
    ELSE LET o   == opExpr(level, s, loc)
             rhs == IF o.loc > 0 THEN Parse(lastExpr(level), "first", s, o.loc, None)
                    ELSE NoMatch
         IN  IF rhs.loc > 0
             THEN Parse(level, "rest", s, rhs.loc, action(level, res, rhs.tok))
             ELSE Match(loc, res)

expr(s, loc) == Parse("OR", "first", s, loc, None)

\* grammar.parseString(cleaned, parseAll=True): the match of expr when only
\* white space follows it (its token is the tree), no match on a
\* ParseException.
parseString(s) ==
    LET r == expr(s, 1)
    IN  IF r.loc > 0 /\ SkipWs(s, r.loc) = Len(s) + 1 THEN r ELSE NoMatch

\* parse_query: no match stands for the None returned after a parse error.
parse_query(query_text) == parseString(remove_comments(query_text))

\* ---------------------------------------------------------------- state
VARIABLES
    text,        \* query_text, the raw query
    cleaned,     \* local cleaned of parse_query
    query,       \* the expression the raw query was written from, if any
    stdout,      \* the reports printed so far
    other,       \* the registers of a second pipeline, when there is one
    heap,        \* all ASTNode objects ever created
    root,        \* Rewriter.root
    ast0,        \* the tree handed to Rewriter.__init__, as a value
    pass_limit,  \* argument of rewrite_ast_iterative
    pc,          \* position in the pipeline
    run,         \* 1: first call of rewrite_ast_iterative, 2: a second call
    passes,      \* local passes
    changed,     \* local changed
    bfs_list,    \* local bfs_list
    parent_map,  \* local parent_map: id -> <<parent, index>>
    pos,         \* position of the `for node in bfs_list` loop
    first,       \* what the first call returned: heap, root, converged or not
    summary,     \* result of categorize_terms
    report       \* pairs_by_a of print_summary

\* No second pipeline.
NoOther == [pc |-> "none"]

vars == <<text, cleaned, query, stdout, other, heap, root, ast0, pass_limit, pc, run, passes, changed, bfs_list,
          parent_map, pos, first, summary, report>>

\* ---------------------------------------------------------------- parse_query
\* ast = parse_query(sample_query); if ast: rewriter = Rewriter(ast).  After
\* a parse error there is no AST and the program ends.
ParseQuery ==
    /\ pc = "start"
    /\ LET c == remove_comments(text)
           r == parseString(c)
       IN  /\ cleaned' = c
           /\ IF r.loc > 0
              THEN /\ heap' = Store(r.tok, heap)
                   /\ root' = Len(heap')
                   /\ ast0' = r.tok
                   /\ pc' = "loop"
              ELSE /\ heap' = heap
                   /\ root' = root
                   /\ ast0' = ast0
                   /\ pc' = "no_ast"
    /\ UNCHANGED <<text, query, stdout, other>>
    /\ UNCHANGED <<pass_limit, run, passes, changed, bfs_list, parent_map, pos,
                   first, summary, report>>

\* ---------------------------------------------------------------- Rewriter
\* Mutant: the children of an AND child are spliced in back to front.
RECURSIVE FlatChildren_Reversed(_, _)
FlatChildren_Reversed(h, chs) ==
    IF chs = <<>> THEN <<>>
    ELSE (IF h[Head(chs)].ntype = "AND"
          THEN [i \in 1..Len(h[Head(chs)].children) |->
                   h[Head(chs)].children[Len(h[Head(chs)].children) + 1 - i]]
          ELSE <<Head(chs)>>)
         \o FlatChildren_Reversed(h, Tail(chs))

\* The children of an AND node after the splice of flatten_and.
RECURSIVE FlatChildren(_, _)
FlatChildren(h, chs) ==
    IF chs = <<>> THEN <<>>
    ELSE (IF h[Head(chs)].ntype = "AND" THEN h[Head(chs)].children
                                         ELSE <<Head(chs)>>)
         \o FlatChildren(h, Tail(chs))

\* Mutant: only an AND in the first child position is noticed.
flatten_and_HeadOnly(h, node) ==
    IF h[node].ntype # "AND" THEN <<h, FALSE>>
    ELSE IF h[h[node].children[1]].ntype = "AND"
         THEN <<[h EXCEPT ![node].children = FlatChildren(h, h[node].children)], TRUE>>
         ELSE <<h, FALSE>>

\* Mutant: the splice is done but not reported.
flatten_and_NoFlag(h, node) ==
    IF h[node].ntype # "AND" THEN <<h, FALSE>>
    ELSE <<[h EXCEPT ![node].children = FlatChildren(h, h[node].children)], FALSE>>

\* Mutant: every AND node reports a splice.
flatten_and_AlwaysFlag(h, node) ==
    IF h[node].ntype # "AND" THEN <<h, FALSE>>
    ELSE <<[h EXCEPT ![node].children = FlatChildren(h, h[node].children)], TRUE>>

\* Rewriter.flatten_and: <<new heap, changed>>.
flatten_and(h, node) ==
    IF h[node].ntype # "AND" THEN <<h, FALSE>>
    ELSE LET did == \E i \in 1..Len(h[node].children) :
                        h[h[node].children[i]].ntype = "AND"
         IN  IF did
             THEN <<[h EXCEPT ![node].children = FlatChildren(h, h[node].children)], TRUE>>
             ELSE <<h, FALSE>>

\* Mutant: the children after the OR child are left out of the new ANDs.
expand_and_with_or_DropAfter(h, node, or_index) ==
    LET or_node == h[node].children[or_index]
        before  == SubSeq(h[node].children, 1, or_index - 1)
        k       == Len(h[or_node].children)
        new_ands == [j \in 1..k |->
                       ASTNode("AND", before \o <<h[or_node].children[j]>>, None)]
        new_or  == ASTNode("OR", [j \in 1..k |-> Len(h) + j], None)
    IN  <<(h \o new_ands) \o <<new_or>>, Len(h) + k + 1>>

\* Rewriter.expand_and_with_or: <<new heap, id of the new OR node>>.
expand_and_with_or(h, node, or_index) ==
    LET or_node == h[node].children[or_index]
        before  == SubSeq(h[node].children, 1, or_index - 1)
        after   == SubSeq(h[node].children, or_index + 1, Len(h[node].children))
        k       == Len(h[or_node].children)
        new_ands == [j \in 1..k |->
                       ASTNode("AND", before \o <<h[or_node].children[j]>> \o after, None)]
        new_or  == ASTNode("OR", [j \in 1..k |-> Len(h) + j], None)
    IN  <<(h \o new_ands) \o <<new_or>>, Len(h) + k + 1>>

\* The BFS gather of one pass, the list: nodes in the order they are popped.
RECURSIVE Gather(_, _, _)
Gather(h, queue, list) ==
    IF queue = <<>> THEN list
    ELSE LET node == Head(queue)
         IN  Gather(h, Tail(queue) \o h[node].children, Append(list, node))

\* The BFS gather of one pass, the dictionary: parent_map[id(c)] = (node, i) is
\* assigned for the popped nodes in order and for i ascending, so an id keeps
\* the last assignment made for it; the root keeps (None, -1).
LastWrite(h, list, c) ==
    LET ws == {w \in (1..Len(list)) \X (1..Len(h)) :
                  /\ w[2] <= Len(h[list[w[1]]].children)
                  /\ h[list[w[1]]].children[w[2]] = c}
        last == CHOOSE w \in ws : \A v \in ws :
                    v[1] < w[1] \/ (v[1] = w[1] /\ v[2] <= w[2])
    IN  IF ws = {} THEN <<None, 0>> ELSE <<list[last[1]], last[2]>>

ParentMap(h, list) == [c \in Range(list) |-> LastWrite(h, list, c)]

\* Mutant: the scan for an OR child stops one child early.
FirstOr_SkipLast(h, node) ==
    LET ors == {i \in 1..(Len(h[node].children) - 1) :
                   h[h[node].children[i]].ntype = "OR"}
    IN  IF ors = {} THEN None ELSE CHOOSE i \in ors : \A j \in ors : i <= j

\* Mutant: the scan keeps the last OR child it sees.
FirstOr_Last(h, node) ==
    LET ors == {i \in 1..Len(h[node].children) : h[h[node].children[i]].ntype = "OR"}
    IN  IF ors = {} THEN None ELSE CHOOSE i \in ors : \A j \in ors : i >= j

\* Index of the first OR child, None if there is none.
FirstOr(h, node) ==
    LET ors == {i \in 1..Len(h[node].children) : h[h[node].children[i]].ntype = "OR"}
    IN  IF ors = {} THEN None ELSE CHOOSE i \in ors : \A j \in ors : i <= j

\* Mutant: one pass too many.
WhileCond_Le(ch, p, limit) == ch /\ p <= limit

\* The test of `while changed and passes < pass_limit`.
WhileCond(ch, p, limit) == ch /\ p < limit

\* The while test holds: a pass starts with the BFS gather.
StartPass ==
    /\ pc = "loop"
    /\ WhileCond(changed, passes, pass_limit)
    /\ LET list == Gather(heap, <<root>>, <<>>)
       IN  /\ bfs_list' = list
           /\ parent_map' = ParentMap(heap, list)
    /\ changed' = FALSE
    /\ passes' = passes + 1
    /\ pos' = 1
    /\ pc' = "process"
    /\ UNCHANGED <<text, cleaned, query, stdout, other>>
    /\ UNCHANGED <<heap, root, ast0, pass_limit, run, first, summary, report>>

\* s[i] = v on a list, i within range.  The list is built anew as a
\* sequence, whatever expression s comes from.
SetItem(s, i, v) == SubSeq(s, 1, i - 1) \o <<v>> \o SubSeq(s, i + 1, Len(s))

\* The body of `for node in bfs_list` for one node: flatten, then expand and
\* put the new OR in the place parent_map gives.  The heap, the root and the
\* changed flag after it; error when the list assignment is out of range.
process_node(h, r, pm, node, ch) ==
    LET fl   == flatten_and(h, node)
        h1   == IF h[node].ntype = "AND" THEN fl[1] ELSE h
        ch1  == h[node].ntype = "AND" /\ fl[2]
        oi   == IF h[node].ntype = "AND" THEN FirstOr(h1, node) ELSE None
        ex   == expand_and_with_or(h1, node, oi)
        parent == pm[node][1]
        idx  == pm[node][2]
    IN  IF oi = None
        THEN [heap |-> h1, root |-> r, changed |-> (ch \/ ch1), error |-> FALSE]
        ELSE IF parent = None
        THEN [heap |-> ex[1], root |-> ex[2], changed |-> TRUE, error |-> FALSE]
        ELSE IF idx <= Len(ex[1][parent].children)
        THEN [heap |-> [ex[1] EXCEPT ![parent].children = SetItem(@, idx, ex[2])],
              root |-> r, changed |-> TRUE, error |-> FALSE]
        ELSE [heap |-> ex[1], root |-> r, changed |-> TRUE, error |-> TRUE]

\* One iteration of `for node in bfs_list`.  After the last node the pass
\* ends and control is back at the while test.
ProcessNode ==
    /\ pc = "process"
    /\ LET p == process_node(heap, root, parent_map, bfs_list[pos], changed)
       IN  /\ heap' = p.heap
           /\ root' = p.root
           /\ changed' = p.changed
           /\ pc' = IF p.error THEN "error"
                    ELSE IF pos = Len(bfs_list) THEN "loop" ELSE "process"
    /\ pos' = pos + 1
    /\ UNCHANGED <<text, cleaned, query, stdout, other>>
    /\ UNCHANGED <<ast0, pass_limit, run, passes, bfs_list, parent_map,
                   first, summary, report>>

\* The while test fails: `return self.root`.
Return ==
    /\ pc = "loop"
    /\ ~WhileCond(changed, passes, pass_limit)
    /\ pc' = "returned"
    /\ UNCHANGED <<text, cleaned, query, stdout, other>>
    /\ UNCHANGED <<heap, root, ast0, pass_limit, run, passes, changed,
                   bfs_list, parent_map, pos, first, summary, report>>

\* rewrite_ast_iterative called again on the Rewriter that just returned.
RewriteAgain ==
    /\ pc = "returned"
    /\ run = 1
    /\ run' = 2
    /\ first' = [heap |-> heap, root |-> root, converged |-> ~changed]
    /\ changed' = TRUE
    /\ passes' = 0
    /\ pc' = "loop"
    /\ UNCHANGED <<text, cleaned, query, stdout, other>>
    /\ UNCHANGED <<heap, root, ast0, pass_limit, bfs_list, parent_map, pos,
                   summary, report>>

\* ---------------------------------------------------------------- Categorizer
\* get_all_terms: the list of all TERM values of the subtree.
RECURSIVE get_all_terms(_, _)
RECURSIVE TermsOfEach(_, _)
\* Mutant: the scan does not descend into NOT nodes.
get_all_terms_SkipNot(h, node) ==
    IF h[node].ntype = "TERM" THEN <<h[node].value>>
    ELSE IF h[node].ntype = "NOT" THEN <<>>
    ELSE TermsOfEach(h, h[node].children)

get_all_terms(h, node) ==
    IF h[node].ntype = "TERM" THEN <<h[node].value>>
    ELSE TermsOfEach(h, h[node].children)

TermsOfEach(h, chs) ==
    IF chs = <<>> THEN <<>>
    ELSE get_all_terms(h, Head(chs)) \o TermsOfEach(h, Tail(chs))

\* a, b = sorted([x, y])
SortedPair(x, y) == IF StrLeq(x, y) THEN <<x, y>> ELSE <<y, x>>

EmptyOutput == [standalone |-> {}, excluded |-> {}, requires_pairs |-> {}]

\* Mutant: a term inside an AND is recorded as standalone all the same.
TermCase_NoAndBranch(value, context, output) ==
    IF "NOT" \in Range(context)
    THEN [output EXCEPT !.excluded = @ \cup {value}]
    ELSE [output EXCEPT !.standalone = @ \cup {value}]

\* Mutant: the AND tag is tested before the NOT tag.
TermCase_AndFirst(value, context, output) ==
    IF "AND" \in Range(context)
    THEN output
    ELSE IF "NOT" \in Range(context)
    THEN [output EXCEPT !.excluded = @ \cup {value}]
    ELSE [output EXCEPT !.standalone = @ \cup {value}]

\* The TERM branch of categorize_terms.
TermCase(value, context, output) ==
    IF "NOT" \in Range(context)
    THEN [output EXCEPT !.excluded = @ \cup {value}]
    ELSE IF "AND" \in Range(context)
    THEN output
    ELSE [output EXCEPT !.standalone = @ \cup {value}]

\* The pairs the AND branch adds: every two distinct values, each pair sorted.
AndPairs(all_terms) ==
    {SortedPair(x, y) : x \in all_terms, y \in all_terms} \ {<<x, x>> : x \in all_terms}

\* categorize_terms(node, context, output): the output after the call.
RECURSIVE categorize_terms(_, _, _, _)
RECURSIVE CategorizeEach(_, _, _, _)
categorize_terms(h, node, context, output) ==
    LET ntype == h[node].ntype
    IN  IF ntype = "TERM"
        THEN TermCase(h[node].value, context, output)
        ELSE IF ntype = "NOT"
        THEN CategorizeEach(h, h[node].children, context \o <<"NOT">>, output)
        ELSE IF ntype = "AND"
        THEN LET all_terms == Range(get_all_terms(h, node))
             IN  CategorizeEach(h, h[node].children, context \o <<"AND">>,
                                [output EXCEPT !.requires_pairs = @ \cup AndPairs(all_terms)])
        ELSE CategorizeEach(h, h[node].children, context, output)

\* Mutant: the tag is appended to the caller's list, so the children visited
\* after a NOT or AND child see its tag.
CategorizeEach_Shared(h, chs, context, output) ==
    IF chs = <<>> THEN output
    ELSE CategorizeEach(h, Tail(chs),
                        IF h[Head(chs)].ntype \in {"NOT", "AND"}
                        THEN context \o <<h[Head(chs)].ntype>> ELSE context,
                        categorize_terms(h, Head(chs), context, output))

\* `for child in node.children: categorize_terms(child, new_context, output)`:
\* every child gets the same context, the output is passed along.
CategorizeEach(h, chs, context, output) ==
    IF chs = <<>> THEN output
    ELSE CategorizeEach(h, Tail(chs), context,
                        categorize_terms(h, Head(chs), context, output))

\* Mutant: a pair is skipped on its first member only.
pairs_by_a_FirstOnly(summary_dict) ==
    LET kept == {p \in summary_dict.requires_pairs : p[1] \notin summary_dict.standalone}
    IN  [a \in {p[1] : p \in kept} |-> {p[2] : p \in {q \in kept : q[1] = a}}]

\* print_summary, step 3: pairs_by_a, the pairs shown under "Requires Another".
pairs_by_a(summary_dict) ==
    LET kept == {p \in summary_dict.requires_pairs :
                    ~(p[1] \in summary_dict.standalone \/ p[2] \in summary_dict.standalone)}
    IN  [a \in {p[1] : p \in kept} |-> {p[2] : p \in {q \in kept : q[1] = a}}]

\* Mutant: the output dictionary is a default shared by the top-level calls,
\* so a call starts from what the earlier call left in it.
NewOutput_Kept(earlier) ==
    IF earlier.pc \in {"categorized", "done"} THEN earlier.summary ELSE EmptyOutput

\* `if output is None: output = {...}`: a top-level call builds its own
\* dictionary, whatever an earlier call of another pipeline has produced.
NewOutput(earlier) == EmptyOutput

\* summary = categorize_terms(new_root)
Categorize ==
    /\ pc = "returned"
    /\ run = 1
    /\ summary' = categorize_terms(heap, root, <<>>, NewOutput(other))
    /\ pc' = "categorized"
    /\ UNCHANGED <<text, cleaned, query, stdout, other>>
    /\ UNCHANGED <<heap, root, ast0, pass_limit, run, passes, changed,
                   bfs_list, parent_map, pos, first, report>>

\* All orders in which a set can be iterated.
RECURSIVE Orders(_)
Orders(S) ==
    IF S = {} THEN {<<>>}
    ELSE UNION {{<<x>> \o o : o \in Orders(S \ {x})} : x \in S}

\* sorted(S, key=str.lower) for a set S: the elements by ascending lower-case
\* key; the sort is stable, so elements with equal keys (values that differ
\* by letter case only) stay in the order the set is iterated in, and a set
\* of str may be iterated in any order.  The set of possible results.
RECURSIVE sorted(_)
sorted(S) ==
    IF S = {} THEN {<<>>}
    ELSE LET least == {x \in S : \A y \in S : StrLeq(lower(x), lower(y))}
         IN  {o \o rest : o \in Orders(least), rest \in sorted(S \ least)}

\* The lines of one section: " - t" for each term, " (none)" without terms.
TermLines(ts) ==
    IF ts = <<>> THEN << <<"(none)">> >>
    ELSE [i \in 1..Len(ts) |-> <<"-", ts[i]>>]

\* " - a must appear with b" or " - a must appear with (b1, b2, ...)"
RequiresLine(a, bs) ==
    IF Len(bs) = 1 THEN <<"- must appear with", a, bs[1]>>
    ELSE <<"- must appear with (...)", a, bs>>

\* The lines of the last section for the first members as, in this order:
\* one line per first member, its partners sorted.
RECURSIVE RequiresLines(_, _)
RequiresLines(pb, as) ==
    IF as = <<>> THEN {<<>>}
    ELSE {<<RequiresLine(Head(as), bs)>> \o rest :
             bs \in sorted(pb[Head(as)]), rest \in RequiresLines(pb, Tail(as))}

\* print_summary: the lines it prints, for every order of iteration of the
\* sets and of pairs_by_a.
print_summary(summary_dict) ==
    LET pb == pairs_by_a(summary_dict)
        requires == IF DOMAIN pb = {} THEN {<< <<"(none)">> >>}
                    ELSE UNION {RequiresLines(pb, as) : as \in sorted(DOMAIN pb)}
    IN  {<< <<"Standalone Terms:">> >> \o TermLines(st) \o << <<>> >>
         \o << <<"Excluded Terms:">> >> \o TermLines(ex) \o << <<>> >>
         \o << <<"Requires Another:">> >> \o rq \o << <<>> >> :
            st \in sorted(summary_dict.standalone),
            ex \in sorted(summary_dict.excluded),
            rq \in requires}

\* print_summary(summary)
PrintSummary ==
    /\ pc = "categorized"
    /\ report' = pairs_by_a(summary)
    /\ \E lines \in print_summary(summary) : stdout' = Append(stdout, lines)
    /\ pc' = "done"
    /\ UNCHANGED <<text, cleaned, query, other>>
    /\ UNCHANGED <<heap, root, ast0, pass_limit, run, passes, changed,
                   bfs_list, parent_map, pos, first, summary>>

\* print_summary called once more on the same sets.
PrintAgain ==
    /\ pc = "done"
    /\ Len(stdout) = 1
    /\ \E lines \in print_summary(summary) : stdout' = Append(stdout, lines)
    /\ UNCHANGED <<text, cleaned, query, other>>
    /\ UNCHANGED <<heap, root, ast0, pass_limit, pc, run, passes, changed,
                   bfs_list, parent_map, pos, first, summary, report>>

\* ---------------------------------------------------------------- inputs
MaxLeaves == (MaxNodes + 1) \div 2

\* Plain words, already in lower case as term_action leaves them.
Words == <<"a", "b", "c", "d", "e", "f", "n", "o", "r", "t">>

DistinctLabels == [k \in 1..MaxLeaves |-> <<Words[k]>>]

\* Term values that repeat: two literals that differ by case only, and words.
TermValues == << <<"{", "A", "}">>, <<"{", "a", "}">>, <<"a">>, <<"b">> >>

PassLimits == {0, SmallPassLimit, DefaultPassLimit}

\* Parse results of at most maxn nodes, at most maxnot of them NOT nodes.
ShapesUpTo(maxn, maxnot) ==
    UNION {Shapes(bn[1], bn[2]) :
             bn \in {x \in (0..(maxn \div 2)) \X (0..maxnot) :
                        2 * x[1] + 1 + x[2] <= maxn}}

NumLeaves(t) == NumTermNodes(Build(t, <<>>, [k \in 1..MaxNodes |-> <<>>]))

InputShapes == ShapesUpTo(MaxNodes, 0) \cup ShapesUpTo(MaxNotNodes, MaxNot)

CatShapes == ShapesUpTo(MaxCatNodes, 0) \cup ShapesUpTo(MaxCatNotNodes, MaxCatNot)

InitWith(t, lab, pl) ==
    /\ heap = Build(t, <<>>, lab)
    /\ root = Len(heap)
    /\ ast0 = TreeOf(heap, root)
    /\ pass_limit = pl
    /\ pc = "loop"
    /\ run = 1
    /\ passes = 0
    /\ changed = TRUE
    /\ bfs_list = <<>>
    /\ parent_map = <<>>
    /\ pos = 0
    /\ first = None
    /\ summary = None
    /\ report = None
    /\ text = None
    /\ cleaned = None
    /\ query = None
    /\ stdout = <<>>
    /\ other = NoOther

Init == \E t \in InputShapes, pl \in PassLimits : InitWith(t, DistinctLabels, pl)

Next ==
    \/ StartPass
    \/ ProcessNode
    \/ Return
    \/ RewriteAgain
    \/ Categorize
    \/ PrintSummary
    \/ PrintAgain

Spec == Init /\ [][Next]_vars

\* The same pipeline on small queries whose term values repeat.
InitCat ==
    \E t \in CatShapes, pl \in {0, DefaultPassLimit} :
        \E lab \in [1..NumLeaves(t) -> {TermValues[k] : k \in 1..NumTerms}] :
            InitWith(t, lab, pl)

SpecCat == InitCat /\ [][Next]_vars

\* ---------------------------------------------------------------- raw queries
\* The pipeline of __main__ started on the raw query t, written from q.
StartText(t, q) ==
    /\ text = t
    /\ cleaned = None
    /\ query = q
    /\ stdout = <<>>
    /\ heap = <<>>
    /\ root = None
    /\ ast0 = None
    /\ pass_limit = DefaultPassLimit
    /\ pc = "start"
    /\ run = 1
    /\ passes = 0
    /\ changed = TRUE
    /\ bfs_list = <<>>
    /\ parent_map = <<>>
    /\ pos = 0
    /\ first = None
    /\ summary = None
    /\ report = None

InitText(t, q) == StartText(t, q) /\ other = NoOther

NextParse == ParseQuery \/ Next

\* Raw queries with comment markers: at most n of these pieces, one after
\* the other.
Pieces == <<OpenMarker, CloseMarker, <<"<">>, <<">">>, <<"a">>, <<"\n">>>>

RECURSIVE PieceTexts(_)
PieceTexts(n) ==
    IF n = 0 THEN {<<>>}
    ELSE LET shorter == PieceTexts(n - 1)
         IN  shorter \cup {t \o Pieces[k] : t \in shorter, k \in 1..Len(Pieces)}

CommentTexts == PieceTexts(MaxPieces)

InitComments == \E t \in CommentTexts : InitText(t, None)

SpecComments == InitComments /\ [][NextParse]_vars

\* ---------------------------------------------------------------- written queries
\* Expressions a query is written from: as the parse results above, with the
\* binary operators NEAR, AND and OR.
RECURSIVE QueryShapes(_, _)
QueryShapes(b, n) ==
    (IF b = 0 /\ n = 0 THEN {<<"TERM">>} ELSE {})
    \cup (IF n > 0 THEN {<<"NOT", s>> : s \in QueryShapes(b, n - 1)} ELSE {})
    \cup (IF b > 0
          THEN UNION { UNION { {<<op, l, r>> : op \in {"NEAR", "AND", "OR"},
                                               l \in QueryShapes(bl, nl),
                                               r \in QueryShapes(b - 1 - bl, n - nl)}
                               : nl \in 0..n }
                       : bl \in 0..(b - 1) }
          ELSE {})

RECURSIVE Leaves(_)
Leaves(sh) ==
    IF sh[1] = "TERM" THEN 1
    ELSE IF sh[1] = "NOT" THEN Leaves(sh[2])
    ELSE Leaves(sh[2]) + Leaves(sh[3])

\* The expression of shape sh whose leaves are, from left to right, the
\* operands lab[k], lab[k + 1], ...  An operand is a leaf of type "WORD",
\* "QUOTED" or "LITERAL" whose value is its spelling in the query.
RECURSIVE QueryTree(_, _, _)
QueryTree(sh, lab, k) ==
    IF sh[1] = "TERM" THEN lab[k]
    ELSE IF sh[1] = "NOT" THEN Tree("NOT", <<QueryTree(sh[2], lab, k)>>, None)
    ELSE Tree(sh[1], <<QueryTree(sh[2], lab, k),
                       QueryTree(sh[3], lab, k + Leaves(sh[2]))>>, None)

\* The term value an operand stands for: a word and the phrase between the
\* quotes in lower case, a literal as it is written.
Folded(t) ==
    CASE t.ntype = "WORD"    -> lower(t.value)
      [] t.ntype = "QUOTED"  -> lower(SubSeq(t.value, 2, Len(t.value) - 1))
      [] t.ntype = "LITERAL" -> t.value

\* How tightly the operator at the top of an expression binds.
Binding(t) ==
    CASE t.ntype = "OR"   -> 1
      [] t.ntype = "AND"  -> 2
      [] t.ntype = "NEAR" -> 3
      [] t.ntype = "NOT"  -> 4
      [] OTHER            -> 5

\* The spelling of an operator, in upper or in lower case.
Spelling(op, lc) ==
    LET kw == CASE op = "OR"   -> <<"O", "R">>
                [] op = "AND"  -> <<"A", "N", "D">>
                [] op = "NOT"  -> <<"N", "O", "T">>
                [] op = "NEAR" -> <<"N", "E", "A", "R", "/", "3">>
    IN  IF lc THEN lower(kw) \o (IF op = "NEAR" THEN <<"f">> ELSE <<>>) ELSE kw

\* The expression as query text: operators and operands separated by one
\* blank, parentheses only where the operand binds less tightly than its
\* place asks for (min): a right operand must bind more tightly than its
\* operator, a left operand and the operand of NOT at least as tightly.
RECURSIVE Unparse(_, _, _)
Unparse(t, lc, min) ==
    LET plain ==
            IF t.children = <<>> THEN t.value
            ELSE IF t.ntype = "NOT"
            THEN Spelling("NOT", lc) \o <<" ">> \o Unparse(t.children[1], lc, Binding(t))
            ELSE Unparse(t.children[1], lc, Binding(t)) \o <<" ">> \o Spelling(t.ntype, lc)
                 \o <<" ">> \o Unparse(t.children[2], lc, Binding(t) + 1)
    IN  IF Binding(t) < min THEN <<"(">> \o plain \o <<")">> ELSE plain

\* The tree the precedence rules give for an expression: NEAR is an AND,
\* an operand is a TERM.
RECURSIVE Meaning(_)
Meaning(t) ==
    IF t.children = <<>> THEN Tree("TERM", <<>>, Folded(t))
    ELSE Tree(IF t.ntype = "NEAR" THEN "AND" ELSE t.ntype,
              [i \in 1..Len(t.children) |-> Meaning(t.children[i])], None)

QueryShapesUpTo(maxn) ==
    UNION {QueryShapes(bn[1], bn[2]) :
             bn \in {x \in (0..maxn) \X (0..maxn) : 2 * x[1] + 1 + x[2] <= maxn}}

\* Expressions of at most MaxQueryNodes nodes over distinct plain words.
Queries ==
    {QueryTree(sh, [k \in 1..Len(Words) |-> Tree("WORD", <<>>, <<Words[k]>>)], 1) :
        sh \in QueryShapesUpTo(MaxQueryNodes)}

InitParse ==
    \E q \in Queries, lc \in BOOLEAN :
        InitText(Unparse(q, lc, 0), [expr |-> q, lower |-> lc])

SpecParse == InitParse /\ [][NextParse]_vars

\* Operands of every kind: words, quoted phrases and literals, with upper
\* case letters, blanks and braces in them.
Operands ==
    {Tree("WORD", <<>>, <<"A", "b">>),
     Tree("WORD", <<>>, <<"a", "b">>),
     Tree("QUOTED", <<>>, <<"\"", "A", " ", "b", "\"">>),
     Tree("QUOTED", <<>>, <<"\"", "{", "A", "B", "}", "\"">>),
     Tree("LITERAL", <<>>, <<"{", "A", "B", "}">>),
     Tree("LITERAL", <<>>, <<"{", "A", " ", "b", "}">>)}

\* Expressions of at most MaxTermQueryNodes nodes over these operands.
TermQueries ==
    UNION {{QueryTree(sh, lab, 1) : lab \in [1..Leaves(sh) -> Operands]} :
             sh \in QueryShapesUpTo(MaxTermQueryNodes)}

InitTerms ==
    \E q \in TermQueries, lc \in BOOLEAN :
        InitText(Unparse(q, lc, 0), [expr |-> q, lower |-> lc])

SpecTerms == InitTerms /\ [][NextParse]_vars

\* Ways of spoiling a query: text left over after the expression, a
\* parenthesis without its partner, a binary operator or a NOT with nothing
\* after it, a quoted phrase or a literal that is not closed.
Damages == {"none", "trailing", "open", "close", "binary", "not", "quote", "literal"}

Damage(kind, t, lc) ==
    CASE kind = "none"     -> t
      [] kind = "trailing" -> t \o <<" ", "b">>
      [] kind = "open"     -> <<"(">> \o t
      [] kind = "close"    -> t \o <<")">>
      [] kind = "binary"   -> t \o <<" ">> \o Spelling("AND", lc)
      [] kind = "not"      -> t \o <<" ">> \o Spelling("OR", lc) \o <<" ">> \o Spelling("NOT", lc)
      [] kind = "quote"    -> t \o <<" ">> \o Spelling("AND", lc) \o <<" ", "\"", "a", "b">>
      [] kind = "literal"  -> t \o <<" ">> \o Spelling("AND", lc) \o <<" ", "{", "a", "b">>

\* Queries of at most MaxTermQueryNodes nodes over plain words, spoiled or not.
InitMalformed ==
    \E sh \in QueryShapesUpTo(MaxTermQueryNodes), lc \in BOOLEAN, d \in Damages :
        LET q == QueryTree(sh, [k \in 1..Len(Words) |-> Tree("WORD", <<>>, <<Words[k]>>)], 1)
        IN  InitText(Damage(d, Unparse(q, lc, 0), lc),
                     [expr |-> q, lower |-> lc, damage |-> d])

SpecMalformed == InitMalformed /\ [][NextParse]_vars

\* ---------------------------------------------------------------- two pipelines
\* rewrite_ast_iterative as one call: the for loop from position i on, and
\* the while loop from the test on.
RECURSIVE for_loop(_, _, _, _, _, _)
for_loop(h, r, pm, list, i, ch) ==
    IF i > Len(list)
    THEN [heap |-> h, root |-> r, changed |-> ch, error |-> FALSE]
    ELSE LET p == process_node(h, r, pm, list[i], ch)
         IN  IF p.error THEN p
             ELSE for_loop(p.heap, p.root, pm, list, i + 1, p.changed)

\* One pass over the list gathered at its start.
one_pass(h, r, list) == for_loop(h, r, ParentMap(h, list), list, 1, FALSE)

RECURSIVE while_loop(_, _, _, _, _)
while_loop(h, r, ch, n, limit) ==
    IF ~WhileCond(ch, n, limit)
    THEN [heap |-> h, root |-> r, changed |-> ch, error |-> FALSE]
    ELSE LET p == one_pass(h, r, Gather(h, <<r>>, <<>>))
         IN  IF p.error THEN p
             ELSE while_loop(p.heap, p.root, p.changed, n + 1, limit)

rewrite_ast_iterative(h, r, limit) == while_loop(h, r, TRUE, 0, limit)

\* __main__ on the raw query t with nothing else in the process: the
\* rewritten tree and the three sets.
Alone(t) ==
    LET r == parse_query(t)
    IN  IF r.loc = 0 THEN [ast |-> FALSE, error |-> FALSE]
        ELSE LET h0 == Store(r.tok, <<>>)
                 rw == rewrite_ast_iterative(h0, Len(h0), DefaultPassLimit)
             IN  IF rw.error THEN [ast |-> TRUE, error |-> TRUE]
                 ELSE [ast |-> TRUE, error |-> FALSE,
                       tree |-> TreeOf(rw.heap, rw.root),
                       summary |-> categorize_terms(rw.heap, rw.root, <<>>, EmptyOutput)]

\* What one pipeline holds: its names and the locals of the call it is in.
\* The ASTNode objects and the standard output belong to the process.
Regs ==
    [text |-> text, cleaned |-> cleaned, query |-> query, root |-> root,
     ast0 |-> ast0, pass_limit |-> pass_limit, pc |-> pc, run |-> run,
     passes |-> passes, changed |-> changed, bfs_list |-> bfs_list,
     parent_map |-> parent_map, pos |-> pos, first |-> first,
     summary |-> summary, report |-> report]

StartRegs(t) ==
    [text |-> t, cleaned |-> None, query |-> None, root |-> None,
     ast0 |-> None, pass_limit |-> DefaultPassLimit, pc |-> "start", run |-> 1,
     passes |-> 0, changed |-> TRUE, bfs_list |-> <<>>,
     parent_map |-> <<>>, pos |-> 0, first |-> None,
     summary |-> None, report |-> None]

\* The other pipeline runs from here on, this one waits.
Switch ==
    /\ other.pc # "none"
    /\ other' = Regs
    /\ text' = other.text
    /\ cleaned' = other.cleaned
    /\ query' = other.query
    /\ root' = other.root
    /\ ast0' = other.ast0
    /\ pass_limit' = other.pass_limit
    /\ pc' = other.pc
    /\ run' = other.run
    /\ passes' = other.passes
    /\ changed' = other.changed
    /\ bfs_list' = other.bfs_list
    /\ parent_map' = other.parent_map
    /\ pos' = other.pos
    /\ first' = other.first
    /\ summary' = other.summary
    /\ report' = other.report
    /\ UNCHANGED <<heap, stdout>>

\* Raw queries of at most maxn nodes over the same plain words.
QueryTexts(maxn) ==
    {Unparse(QueryTree(sh, [k \in 1..Len(Words) |-> Tree("WORD", <<>>, <<Words[k]>>)], 1),
             FALSE, 0) : sh \in QueryShapesUpTo(maxn)}

InitTwo ==
    \E t1 \in QueryTexts(MaxFirstNodes), t2 \in QueryTexts(MaxSecondNodes) :
        /\ t1 # t2
        /\ StartText(t1, None)
        /\ other = StartRegs(t2)

NextTwo == Switch \/ NextParse

SpecTwo == InitTwo /\ [][NextTwo]_vars

\* ---------------------------------------------------------------- query_parser.py
\* rewrite_ast(node) of query_parser.py, the recursive variant: <<heap, id of
\* the node returned>>.
RECURSIVE rewrite_ast(_, _)
RECURSIVE RewriteChildren(_, _, _)
RECURSIVE RewriteAlternatives(_, _, _, _, _, _)

\* `for i, ch in enumerate(node.children): node.children[i] = rewrite_ast(ch)`
\* from child i on.
RewriteChildren(h, node, i) ==
    IF i > Len(h[node].children) THEN h
    ELSE LET r == rewrite_ast(h, h[node].children[i])
         IN  RewriteChildren([r[1] EXCEPT ![node].children = SetItem(@, i, r[2])],
                             node, i + 1)

\* `for or_child in or_node.children`: a new AND of before + [or_child] +
\* after is built and rewritten, from alternative j on; <<heap, new_or_children>>.
RewriteAlternatives(h, before, alts, after, j, new_or_children) ==
    IF j > Len(alts) THEN <<h, new_or_children>>
    ELSE LET h1 == Append(h, ASTNode("AND", (before \o <<alts[j]>>) \o after, None))
             r  == rewrite_ast(h1, Len(h1))
         IN  RewriteAlternatives(r[1], before, alts, after, j + 1,
                                 Append(new_or_children, r[2]))

rewrite_ast(h, node) ==
    LET h1 == RewriteChildren(h, node, 1)
    IN  IF h1[node].ntype # "AND" THEN <<h1, node>>
        ELSE LET h2  == [h1 EXCEPT ![node].children = FlatChildren(h1, h1[node].children)]
                 chs == h2[node].children
                 ors == {i \in 1..Len(chs) : h2[chs[i]].ntype = "OR"}
             IN  IF ors = {} THEN <<h2, node>>
                 ELSE LET or_index == CHOOSE i \in ors : \A j \in ors : i <= j
                          r  == RewriteAlternatives(h2, SubSeq(chs, 1, or_index - 1),
                                                    h2[chs[or_index]].children,
                                                    SubSeq(chs, or_index + 1, Len(chs)),
                                                    1, <<>>)
                          h3 == Append(r[1], ASTNode("OR", r[2], None))
                      IN  rewrite_ast(h3, Len(h3))

\* The pipeline of query_parser.py run on the same parse result, in a heap
\* of its own: rewrite_ast, then categorize_terms.
RecursivePipeline ==
    /\ pc = "loop"
    /\ run = 1
    /\ passes = 0
    /\ other.pc = "none"
    /\ LET h0 == Store(ast0, <<>>)
           r  == rewrite_ast(h0, Len(h0))
       IN  other' = [pc |-> "rewrite_ast", tree |-> TreeOf(r[1], r[2]),
                     summary |-> categorize_terms(r[1], r[2], <<>>, EmptyOutput)]
    /\ UNCHANGED <<text, cleaned, query, stdout, heap, root, ast0, pass_limit, pc,
                   run, passes, changed, bfs_list, parent_map, pos, first,
                   summary, report>>

\* Both variants on parse results of at most MaxBothNodes nodes, those with
\* NOT nodes of at most MaxBothNotNodes nodes with at most MaxBothNot NOT
\* nodes; the iterative variant runs with its default pass limit.
InitBoth ==
    \E t \in ShapesUpTo(MaxBothNodes, 0) \cup ShapesUpTo(MaxBothNotNodes, MaxBothNot) :
        InitWith(t, DistinctLabels, DefaultPassLimit)

NextBoth == RecursivePipeline \/ Next

SpecBoth == InitBoth /\ [][NextBoth]_vars

\* ======================================================================
\* Properties
\* ======================================================================
\* The nodes reachable from the root.
Live == Range(Gather(heap, <<root>>, <<>>))

ChildTypes(n) == {heap[heap[n].children[i]].ntype : i \in 1..Len(heap[n].children)}

\* rewrite_ast_iterative has returned because a pass made no change.
Fixpoint == pc = "returned" /\ ~changed

RECURSIVE TreeTerms(_)
TreeTerms(t) ==
    IF t.ntype = "TERM" THEN {t.value}
    ELSE UNION {TreeTerms(t.children[i]) : i \in 1..Len(t.children)}

RECURSIVE TreeDepth(_)
TreeDepth(t) ==
    IF t.children = <<>> THEN 1
    ELSE 1 + CHOOSE d \in {TreeDepth(t.children[i]) : i \in 1..Len(t.children)} :
                 \A i \in 1..Len(t.children) : TreeDepth(t.children[i]) <= d

\* C1: when rewrite_ast_iterative returns at a fixpoint, no AND node reachable
\* from the returned root has an OR node among its direct children.
C1_NoOrUnderAnd ==
    Fixpoint => \A n \in Live : heap[n].ntype = "AND" => "OR" \notin ChildTypes(n)

\* C1 witness: a fixpoint reached after the root AND was distributed.
C1_Witness ==
    /\ Fixpoint /\ run = 1
    /\ ast0.ntype = "AND"
    /\ heap[root].ntype = "OR"
    /\ \E n \in Live : heap[n].ntype = "AND"

\* C2: when rewrite_ast_iterative returns at a fixpoint, no AND node reachable
\* from the returned root has an AND node among its direct children.
C2_NoAndUnderAnd ==
    Fixpoint => \A n \in Live : heap[n].ntype = "AND" => "AND" \notin ChildTypes(n)

\* C2 witness: a chain of ANDs nested four levels deep was collapsed into
\* one AND of five terms.
C2_Witness ==
    /\ Fixpoint /\ run = 1
    /\ TreeDepth(ast0) >= 5
    /\ heap[root].ntype = "AND"
    /\ Len(heap[root].children) = 5
    /\ ChildTypes(root) = {"TERM"}

\* C3 (as claimed): when rewrite_ast_iterative returns at a fixpoint, no OR
\* node reachable from the returned root has an OR node among its children.
C3_NoOrUnderOr ==
    Fixpoint => \A n \in Live : heap[n].ntype = "OR" => "OR" \notin ChildTypes(n)

\* C4: a second run of rewrite_ast_iterative on a tree the first run returned
\* at a fixpoint splices nothing, distributes nothing (the heap and the root
\* stay as they were) and returns after one pass without a change.
C4_Idempotent ==
    (run = 2 /\ first.converged) =>
        /\ heap = first.heap
        /\ root = first.root
        /\ pc = "returned" => (passes = 1 /\ ~changed)

\* C4 witness: the second run has returned on a tree that the first run
\* had to rewrite.
C4_Witness ==
    /\ run = 2 /\ first.converged /\ pc = "returned"
    /\ TreeOf(heap, root) # ast0

\* C5 (as claimed): the distinct term values reachable from the root that
\* rewrite_ast_iterative returns at a fixpoint are exactly the distinct term
\* values of the input tree.
C5_TermsConserved ==
    Fixpoint => Range(get_all_terms(heap, root)) = TreeTerms(ast0)

\* C6: at most pass_limit passes are executed (none when pass_limit is 0), a
\* pass that made no change is the last one, no error is raised, and the
\* return hands back the tree as the last pass left it.
C6_State ==
    /\ passes <= pass_limit
    /\ pc # "error"
    /\ pc = "returned" => (~changed \/ passes = pass_limit)
    /\ (pass_limit = 0 /\ run = 1) => (passes = 0 /\ TreeOf(heap, root) = ast0)

C6_Step ==
    /\ (pc = "loop" /\ ~changed) => (pc' = "returned")
    /\ (pc = "loop" /\ pc' = "returned") => (heap' = heap /\ root' = root)
    /\ (pc = "loop" /\ pc' = "process") => (changed /\ passes' = passes + 1)

C6_PassBudget == [](C6_State) /\ [][C6_Step]_vars

\* C6 witness: the ceiling was reached before a pass without a change.
C6_Witness ==
    /\ pc = "returned" /\ run = 1
    /\ changed
    /\ passes = pass_limit
    /\ pass_limit > 0

\* ---------------------------------------------------------------------
\* Categorizer: the occurrences of terms, as paths from the root.
RECURSIVE Paths(_, _)
Paths(h, n) ==
    IF h[n].ntype = "TERM" THEN {<<n>>}
    ELSE UNION {{<<n>> \o q : q \in Paths(h, h[n].children[i])} :
                  i \in 1..Len(h[n].children)}

\* The types of the proper ancestors of the occurrence p.
Ancestors(p) == {heap[p[i]].ntype : i \in 1..(Len(p) - 1)}

NotCount(p) == Cardinality({i \in 1..(Len(p) - 1) : heap[p[i]].ntype = "NOT"})

Occurrences == Paths(heap, root)

ValueOf(p) == heap[p[Len(p)]].value

\* The values with an occurrence below node n.
ValuesBelow(n) == {heap[q[Len(q)]].value : q \in Paths(heap, n)}

Categorized == pc \in {"categorized", "done"}

\* C7: standalone is exactly the set of values with an occurrence that has
\* neither a NOT nor an AND among its ancestors.
C7_Standalone ==
    Categorized =>
        summary.standalone =
            {ValueOf(p) : p \in {q \in Occurrences : Ancestors(q) \cap {"NOT", "AND"} = {}}}

\* C7 witness: a value is standalone through one occurrence under ORs only,
\* while another occurrence of the same value sits inside an AND.
C7_Witness ==
    /\ Categorized
    /\ \E p \in Occurrences, q \in Occurrences :
          /\ ValueOf(p) = ValueOf(q)
          /\ Ancestors(p) = {"OR"}
          /\ "AND" \in Ancestors(q)
          /\ ValueOf(p) \in summary.standalone

\* C8: excluded is exactly the set of values with an occurrence that has at
\* least one NOT ancestor, whatever else lies between or above.
C8_Excluded ==
    Categorized =>
        /\ summary.excluded =
               {ValueOf(p) : p \in {q \in Occurrences : "NOT" \in Ancestors(q)}}
        /\ \A p \in Occurrences :
               ("NOT" \in Ancestors(p) /\ ValueOf(p) \in summary.standalone) =>
                   \E q \in Occurrences :
                       ValueOf(q) = ValueOf(p) /\ Ancestors(q) \cap {"NOT", "AND"} = {}

\* C8 witness: a term under two NOTs and one under a NOT inside an AND, both
\* excluded.
C8_Witness ==
    /\ Categorized
    /\ \E p \in Occurrences, q \in Occurrences :
          /\ NotCount(p) = 2
          /\ {"NOT", "AND"} \subseteq Ancestors(q)
          /\ {ValueOf(p), ValueOf(q)} \subseteq summary.excluded

\* C9: before reconciliation requires_pairs is exactly the set of pairs
\* (a, b), a < b, such that the subtree of some reachable AND node holds
\* occurrences of both a and b (the scan passes through NOT and OR).
C9_RequiresPairs ==
    Categorized =>
        summary.requires_pairs =
            {ab \in ValuesBelow(root) \X ValuesBelow(root) :
                /\ StrLess(ab[1], ab[2])
                /\ \E n \in Live : /\ heap[n].ntype = "AND"
                                    /\ {ab[1], ab[2]} \subseteq ValuesBelow(n)}

\* C9 witness: a term under NOT inside an AND is excluded and paired with
\* another value of that AND.
C9_Witness ==
    /\ Categorized
    /\ \E p \in Occurrences :
          /\ {"NOT", "AND"} \subseteq Ancestors(p)
          /\ ValueOf(p) \in summary.excluded
          /\ \E ab \in summary.requires_pairs : ValueOf(p) \in {ab[1], ab[2]}

\* The pairs shown in the "requires another" part of the summary.
ShownPairs == UNION {{<<a, b>> : b \in report[a]} : a \in DOMAIN report}

\* C10: after reconciliation no shown pair has a member in standalone, and
\* the shown pairs are exactly the recorded pairs without such a member.
C10_Reconciled ==
    pc = "done" =>
        /\ \A ab \in ShownPairs : {ab[1], ab[2]} \cap summary.standalone = {}
        /\ ShownPairs = {ab \in summary.requires_pairs :
                            {ab[1], ab[2]} \cap summary.standalone = {}}

\* C10 witness: a recorded pair is dropped because its second member is
\* standalone through another occurrence, while another pair is shown.
C10_Witness ==
    /\ pc = "done"
    /\ \E ab \in summary.requires_pairs :
          ab[2] \in summary.standalone /\ ab[1] \notin summary.standalone
    /\ ShownPairs # {}

\* C11 (as claimed): the summary that the top-level call of categorize_terms
\* returns is already reconciled: none of its requires_pairs has a member
\* in its standalone set.
C11_ReturnedReconciled ==
    Categorized =>
        \A ab \in summary.requires_pairs : {ab[1], ab[2]} \cap summary.standalone = {}

\* ---------------------------------------------------------------------
\* The parse of u1 OR ... OR uk over plain terms: a TERM, or a binary OR
\* whose right child is a TERM and whose left child is such a parse again.
RECURSIVE IsOrChain(_)
IsOrChain(t) ==
    IF t.ntype = "TERM" THEN TRUE
    ELSE /\ t.ntype = "OR"
         /\ Len(t.children) = 2
         /\ t.children[2].ntype = "TERM"
         /\ IsOrChain(t.children[1])

\* u1, ..., uk of such a parse, in the order of the text.
RECURSIVE Alternatives(_)
Alternatives(t) ==
    IF t.ntype = "TERM" THEN <<t.value>>
    ELSE Append(Alternatives(t.children[1]), t.children[2].value)

\* The query was t AND (u1 OR ... OR uk), k >= 2.
TAndOrs ==
    /\ ast0.ntype = "AND"
    /\ Len(ast0.children) = 2
    /\ ast0.children[1].ntype = "TERM"
    /\ ast0.children[2].ntype = "OR"
    /\ IsOrChain(ast0.children[2])

\* Or(And(t, u1), ..., And(t, uk))
OrOfAnds(t, us) ==
    Tree("OR", [i \in 1..Len(us) |->
                   Tree("AND", <<Tree("TERM", <<>>, t), Tree("TERM", <<>>, us[i])>>, None)],
         None)

\* C12 (as claimed): for t AND (u1 OR ... OR uk) over distinct plain terms
\* the normalized tree is Or(And(t,u1), ..., And(t,uk)), requires_pairs is
\* exactly the pairs of t with each ui, and standalone and excluded are empty.
C12_Distributed ==
    (pc = "done" /\ ~changed /\ TAndOrs) =>
        LET t  == ast0.children[1].value
            us == Alternatives(ast0.children[2])
        IN  /\ TreeOf(heap, root) = OrOfAnds(t, us)
            /\ summary.requires_pairs = {SortedPair(t, us[i]) : i \in 1..Len(us)}
            /\ summary.standalone = {}
            /\ summary.excluded = {}

\* C13: in the tree the parser builds, at every step of the rewrite and in
\* the tree rewrite_ast_iterative returns, every AND node and every OR node
\* ever created has at least two children and every NOT node exactly one.
C13_Arity ==
    \A n \in DOMAIN heap :
        /\ heap[n].ntype \in {"AND", "OR"} => Len(heap[n].children) >= 2
        /\ heap[n].ntype = "NOT" => Len(heap[n].children) = 1

\* C13 witness: a returned tree in which a flatten made an AND of three or
\* more children and a distribution replaced the root AND by an OR.
C13_Witness ==
    /\ Fixpoint /\ run = 1
    /\ ast0.ntype = "AND"
    /\ heap[root].ntype = "OR"
    /\ \E n \in Live : heap[n].ntype = "AND" /\ Len(heap[n].children) >= 3

\* ---------------------------------------------------------------------
\* Comments, told by position.  The close markers that follow the open
\* marker at position i.
ClosesAfter(s, i) == {j \in (i + 3)..Len(s) : At(s, j, CloseMarker)}

\* The last position of the span that an open marker at i begins: the end
\* of the first close marker that follows it.
SpanEnd(s, i) == 2 + CHOOSE j \in ClosesAfter(s, i) : \A k \in ClosesAfter(s, i) : j <= k

\* Position i begins a span: an open marker stands there, a close marker
\* follows it, and i lies in no span begun further left.
RECURSIVE SpanStart(_, _)
SpanStart(s, i) ==
    /\ At(s, i, OpenMarker)
    /\ ClosesAfter(s, i) # {}
    /\ \A k \in 1..(i - 1) : ~(SpanStart(s, k) /\ i <= SpanEnd(s, k))

SpanStarts(s) == {i \in 1..Len(s) : SpanStart(s, i)}

\* The positions outside every span, and the characters there, in order.
Outside(s) ==
    {p \in 1..Len(s) : \A i \in SpanStarts(s) : p < i \/ p > SpanEnd(s, i)}

CharsAt(s, ps) ==
    [n \in 1..Cardinality(ps) |->
        s[CHOOSE p \in ps : Cardinality({q \in ps : q <= p}) = n]]

\* C14: remove_comments deletes every span from an open marker to the first
\* close marker that follows it (spans found from left to right, an open
\* marker inside a span begins nothing, a span may hold newlines) and
\* returns the characters outside the spans, unchanged and in order.
C14_CommentsRemoved ==
    pc # "start" => cleaned = CharsAt(text, Outside(text))

\* C14 witness: two spans were deleted, one of them holding a newline.
C14_Witness ==
    /\ pc # "start"
    /\ Cardinality(SpanStarts(text)) = 2
    /\ \E i \in SpanStarts(text) : \E p \in i..SpanEnd(text, i) : text[p] = "\n"

\* The open markers outside every span that no close marker follows.
Unterminated(s) ==
    {i \in Outside(s) : At(s, i, OpenMarker) /\ ClosesAfter(s, i) = {}}

\* C15 (as claimed): when an open marker has no close marker after it,
\* remove_comments deletes everything from the first such marker to the end
\* of the input (and the spans before it).
C15_UnterminatedDeleted ==
    (pc # "start" /\ Unterminated(text) # {}) =>
        LET u == CHOOSE i \in Unterminated(text) : \A k \in Unterminated(text) : i <= k
        IN  cleaned = CharsAt(text, {p \in Outside(text) : p < u})

\* ---------------------------------------------------------------------
\* C16: the parser builds the tree that the precedence NOT > NEAR > AND > OR
\* gives, with keywords in either letter case and parentheses as atoms:
\* binary operators fold to the left into binary nodes and a NEAR is an AND
\* node without its distance.
C16_Precedence ==
    (pc # "start") => (pc # "no_ast" /\ ast0 = Meaning(query.expr))

\* C16 witness: the query `a and b near/3f c` was parsed into
\* And(a, And(b, c)).
C16_Witness ==
    /\ pc = "loop" /\ passes = 0
    /\ text = <<"a", " ", "a", "n", "d", " ", "b", " ", "n", "e", "a", "r", "/", "3", "f", " ", "c">>
    /\ ast0 = Tree("AND", <<Tree("TERM", <<>>, <<"a">>),
                            Tree("AND", <<Tree("TERM", <<>>, <<"b">>),
                                          Tree("TERM", <<>>, <<"c">>)>>, None)>>, None)

\* The leaves of a tree value, from left to right.
RECURSIVE TreeLeaves(_)
TreeLeaves(t) ==
    IF t.children = <<>> THEN <<t>>
    ELSE IF Len(t.children) = 1 THEN TreeLeaves(t.children[1])
    ELSE TreeLeaves(t.children[1]) \o TreeLeaves(t.children[2])

\* C17 (as claimed): the value of a term made from a word or from a quoted
\* phrase is in lower case, the value of a term made from a literal is the
\* literal as written, braces included; a literal AND a word give exactly
\* one pair, made of these two different values.
C17_CaseFolding ==
    (pc \notin {"start", "no_ast"}) =>
        LET operands == TreeLeaves(query.expr)
            terms    == TreeLeaves(ast0)
        IN  /\ Len(terms) = Len(operands)
            /\ \A k \in 1..Len(terms) : terms[k].value = Folded(operands[k])
            /\ (/\ pc = "done"
                /\ query.expr.ntype = "AND"
                /\ query.expr.children[1].ntype = "LITERAL"
                /\ query.expr.children[2].ntype = "WORD") =>
                   /\ terms[1].value # terms[2].value
                   /\ summary.requires_pairs = {SortedPair(terms[1].value, terms[2].value)}

\* C18 (as claimed): for a query that is not exactly one complete
\* expression parse_query returns no AST: nothing is rewritten and no
\* summary is printed.
C18_MalformedRejected ==
    (pc # "start" /\ query.damage # "none") =>
        (pc = "no_ast" /\ heap = <<>> /\ stdout = <<>>)

\* ---------------------------------------------------------------------
\* C19 (as claimed): print_summary is a function of the three sets: called
\* twice on the same sets, it prints the same lines in the same order,
\* whatever the order of iteration.
C19_Deterministic ==
    Len(stdout) = 2 => stdout[1] = stdout[2]

\* ---------------------------------------------------------------------
\* C20: two pipelines (parse, rewrite, categorize) on different queries, one
\* after the other or interleaved step by step in any order, share no
\* mutable state: each has no AST exactly when it has none run alone, each
\* returns the tree it returns when run alone, and each gets the three sets
\* it gets when run alone; nothing that the categorize_terms call of one
\* pipeline put in its dictionary shows in the dictionary of the other.
AsAlone(r) ==
    IF r.pc = "no_ast" THEN ~Alone(r.text).ast
    ELSE IF r.pc = "error" THEN Alone(r.text).error
    ELSE IF r.pc = "returned" /\ r.run = 1
    THEN LET a == Alone(r.text)
         IN  a.ast /\ ~a.error /\ TreeOf(heap, r.root) = a.tree
    ELSE IF r.pc \in {"categorized", "done"}
    THEN LET a == Alone(r.text)
         IN  a.ast /\ ~a.error /\ TreeOf(heap, r.root) = a.tree
                   /\ r.summary = a.summary
    ELSE TRUE

C20_NoSharing == AsAlone(Regs) /\ AsAlone(other)

\* Both pipelines are done on queries with a term in common and different
\* results, this one with terms that require another.  The first node is this pipeline's, the other pipeline's root
\* was made later, and this pipeline's root later still: the other pipeline
\* parsed its query between this pipeline's parse and the end of its rewrite.
C20_Witness ==
    /\ pc = "done"
    /\ other.pc = "done"
    /\ 1 \in Range(Gather(heap, <<root>>, <<>>))
    /\ 1 < other.root
    /\ other.root < root
    /\ summary # other.summary
    /\ UNION {{p[1], p[2]} : p \in summary.requires_pairs}
           \cap other.summary.standalone # {}

\* ---------------------------------------------------------------------
\* C21: in a step that distributes an AND node, the new OR is put exactly
\* where that AND node is at that moment: it becomes the root when the AND
\* node is the root; otherwise the root stays, the only child slots of the
\* tree that change are slots holding the AND node, they now hold the new
\* OR, and one of them changes when the AND node is in the tree.  A node
\* that is no longer in the tree changes no slot of the tree.
C21_Step ==
    (pc = "process" /\ Len(heap') > Len(heap)) =>
        LET node == bfs_list[pos]
            h1   == flatten_and(heap, node)[1]
            live == Range(Gather(h1, <<root>>, <<>>))
            kept(n, i) == heap'[n].children[i] = h1[n].children[i]
        IN  /\ \A n \in live :
                 /\ Len(heap'[n].children) = Len(h1[n].children)
                 /\ \A i \in 1..Len(h1[n].children) :
                        \/ kept(n, i)
                        \/ (h1[n].children[i] = node
                              /\ heap'[n].children[i] = Len(heap'))
            /\ IF node = root
               THEN root' = Len(heap')
               ELSE /\ root' = root
                    /\ (node \in live) =>
                          \E n \in live : \E i \in 1..Len(h1[n].children) :
                              h1[n].children[i] = node /\ ~kept(n, i)

C21_InstalledInPlace == [][C21_Step]_vars

\* ---------------------------------------------------------------------
\* C22: one distribution step acts on the first OR child only.  For the AND
\* node with children before ++ [Or(c1..ck)] ++ after, no OR in before, the
\* step creates And(before ++ [cj] ++ after) for j = 1..k, in this order,
\* and the OR of these k nodes; the siblings keep their order and the
\* children of the AND node, later OR children included, stay as they are.
C22_Step ==
    (pc = "process" /\ Len(heap') > Len(heap)) =>
        LET node == bfs_list[pos]
            h1   == flatten_and(heap, node)[1]
            chs  == h1[node].children
            ors  == {i \in 1..Len(chs) : h1[chs[i]].ntype = "OR"}
            oi   == CHOOSE i \in ors : \A j \in ors : i <= j
            alts == h1[chs[oi]].children
            k    == Len(alts)
            base == Len(heap)
        IN  /\ ors # {}
            /\ Len(heap') = base + k + 1
            /\ \A j \in 1..k :
                 heap'[base + j] =
                     ASTNode("AND", SubSeq(chs, 1, oi - 1) \o <<alts[j]>>
                                      \o SubSeq(chs, oi + 1, Len(chs)), None)
            /\ heap'[base + k + 1].ntype = "OR"
            /\ heap'[base + k + 1].children = [j \in 1..k |-> base + j]
            /\ \A i \in 1..Len(chs) : heap'[chs[i]] = h1[chs[i]]

C22_FirstOrOnly == [][C22_Step]_vars

\* A distribution has just been done on an AND node with a second OR child:
\* the new conjunctions still have that OR among their children.
C22_Witness ==
    /\ pc = "process"
    /\ passes = 1
    /\ heap[Len(heap)].ntype = "OR"
    /\ Len(heap[Len(heap)].children) = 2
    /\ LET and1 == heap[heap[Len(heap)].children[1]]
       IN  /\ and1.ntype = "AND"
           /\ heap[and1.children[1]].ntype = "TERM"
           /\ \E i \in 2..Len(and1.children) : heap[and1.children[i]].ntype = "OR"

\* ---------------------------------------------------------------------
\* The places child i of an AND node takes after the splice: as many as it
\* has children when it is an AND node, one otherwise.
Width(h, c) == IF h[c].ntype = "AND" THEN Len(h[c].children) ELSE 1

RECURSIVE Offset(_, _, _)
Offset(h, chs, i) == IF i = 1 THEN 0 ELSE Offset(h, chs, i - 1) + Width(h, chs[i - 1])

\* t is t1 AND t2 AND ... AND tn as parsed: the list of its terms, <<>> when
\* t is not such a chain.
RECURSIVE ChainTerms(_)
ChainTerms(t) ==
    IF t.ntype = "TERM" THEN <<t.value>>
    ELSE IF t.ntype = "AND" /\ Len(t.children) = 2 /\ t.children[2].ntype = "TERM"
              /\ ChainTerms(t.children[1]) # <<>>
    THEN Append(ChainTerms(t.children[1]), t.children[2].value)
    ELSE <<>>

\* C23: a step on an AND node replaces each direct AND child by that
\* child's children at the same position and keeps the other children, all
\* in their order, and the pass is marked changed exactly when it was
\* already, a splice happened or a distribution followed; a step on another
\* node changes nothing.  So a parsed chain t1 AND ... AND tn of terms is
\* returned at the fixpoint as one And(t1, ..., tn), terms in their order.
C23_Step ==
    (pc = "process") =>
        LET node == bfs_list[pos]
            old  == heap[node].children
            new  == heap'[node].children
            spliced == \E i \in 1..Len(old) : heap[old[i]].ntype = "AND"
        IN  IF heap[node].ntype = "AND"
            THEN /\ Len(new) = Offset(heap, old, Len(old) + 1)
                 /\ \A i \in 1..Len(old) :
                      SubSeq(new, Offset(heap, old, i) + 1, Offset(heap, old, i + 1)) =
                          IF heap[old[i]].ntype = "AND" THEN heap[old[i]].children
                                                         ELSE <<old[i]>>
                 /\ changed' = (changed \/ spliced \/ Len(heap') > Len(heap))
            ELSE heap' = heap /\ changed' = changed

C23_Chain ==
    (Fixpoint /\ run = 1 /\ Len(ChainTerms(ast0)) >= 2) =>
        /\ heap[root].ntype = "AND"
        /\ [i \in 1..Len(heap[root].children) |->
               TreeOf(heap, heap[root].children[i])] =
           [i \in 1..Len(ChainTerms(ast0)) |->
               Tree("TERM", <<>>, ChainTerms(ast0)[i])]

C23_FlattenInPlace == [][C23_Step /\ C23_Chain']_vars

\* A chain of four terms or more has been returned as one AND node.
C23_Witness ==
    /\ Fixpoint /\ run = 1
    /\ Len(ChainTerms(ast0)) >= 4
    /\ Len(heap[root].children) = Len(ChainTerms(ast0))
    /\ passes = 3

\* ---------------------------------------------------------------------
\* What the tags of its own ancestors make of the occurrence p.
ClassOf(p) ==
    IF "NOT" \in Ancestors(p) THEN "excluded"
    ELSE IF "AND" \in Ancestors(p) THEN "none"
    ELSE "standalone"

\* C24: the classification of a TERM occurrence depends on the tags of its
\* own ancestors only (NOT gives NOT, AND gives AND, OR gives nothing): an
\* occurrence is put in excluded or in standalone exactly as its own
\* ancestors say, and a value is in one of the two sets only through an
\* occurrence of its own; the context extended for one child is not seen by
\* a sibling, so in (NOT a) OR b the term b is standalone and not excluded.
C24_OwnAncestorsOnly ==
    Categorized =>
        /\ \A p \in Occurrences :
              /\ ClassOf(p) = "excluded" => ValueOf(p) \in summary.excluded
              /\ ClassOf(p) = "standalone" => ValueOf(p) \in summary.standalone
        /\ \A v \in summary.excluded :
              \E p \in Occurrences : ValueOf(p) = v /\ ClassOf(p) = "excluded"
        /\ \A v \in summary.standalone :
              \E p \in Occurrences : ValueOf(p) = v /\ ClassOf(p) = "standalone"

\* As in (NOT a) OR b: the second child of the root OR is a term visited
\* after a NOT sibling; it is standalone and not excluded.
C24_Witness ==
    /\ Categorized
    /\ heap[root].ntype = "OR"
    /\ heap[heap[root].children[1]].ntype = "NOT"
    /\ heap[heap[root].children[2]].ntype = "TERM"
    /\ heap[heap[root].children[2]].value \in summary.standalone
    /\ heap[heap[root].children[2]].value \notin summary.excluded
    /\ summary.excluded # {}

\* ---------------------------------------------------------------------
\* rewrite_ast_iterative alone, on parse results of at most MaxLiveNodes
\* nodes, at most MaxLiveNot of them NOT nodes, with LivePassLimit as a pass
\* limit that is large enough.
InitLive ==
    \E t \in ShapesUpTo(MaxLiveNodes, MaxLiveNot) :
        InitWith(t, DistinctLabels, LivePassLimit)

NextRewrite == StartPass \/ ProcessNode \/ Return

\* What every step of the loop does to its position: while the call has not
\* returned or raised, the interpreter moves on to the next statement.
Advance ==
    /\ pc \in {"loop", "process"}
    /\ pc' \in {"loop", "process", "returned", "error"}
    /\ pos' \in {pos, pos + 1, 1}
    /\ passes' \in {passes, passes + 1}

SpecLive == InitLive /\ [][NextRewrite]_vars /\ WF_<<pc, pos, passes>>(Advance)

\* C25: the rewrite loop converges: with a pass limit that is large enough,
\* a pass in which nothing is flattened and nothing is distributed is
\* eventually executed and rewrite_ast_iterative returns after it.
C25_Converges == <>(Fixpoint /\ passes < pass_limit)

\* The loop has returned after a pass without change although an earlier
\* pass changed a node that was no longer part of the tree: more nodes were
\* created than the tree and the parse result hold.
C25_Witness ==
    /\ Fixpoint
    /\ passes >= 3
    /\ passes < pass_limit
    /\ \E n \in 1..Len(heap) : n \notin Live /\ heap[n].ntype = "OR"
                                /\ \E i \in 1..Len(heap[n].children) :
                                       heap[n].children[i] \in Live

\* ---------------------------------------------------------------------
\* The truth value of the tree t when exactly the terms in true hold.
RECURSIVE Holds(_, _)
Holds(t, true) ==
    IF t.ntype = "TERM" THEN t.value \in true
    ELSE IF t.ntype = "NOT" THEN ~Holds(t.children[1], true)
    ELSE IF t.ntype = "AND"
    THEN \A i \in 1..Len(t.children) : Holds(t.children[i], true)
    ELSE \E i \in 1..Len(t.children) : Holds(t.children[i], true)

\* C26: the tree returned by rewrite_ast_iterative is logically equivalent
\* to the input tree: with TERM values as boolean variables and AND, OR,
\* NOT as the connectives, both have the same truth value under every
\* assignment.
C26_Equivalent ==
    (pc = "returned" /\ run = 1) =>
        \A true \in SUBSET TreeTerms(ast0) :
            Holds(TreeOf(heap, root), true) = Holds(ast0, true)

\* ---------------------------------------------------------------------
\* C27: the two rewrite variants agree: on the same input tree the iterative
\* Rewriter, run to its fixpoint, and the recursive rewrite_ast return
\* structurally identical trees, and categorize_terms gives the same three
\* sets on both.
C27_VariantsAgree ==
    /\ (Fixpoint /\ run = 1 /\ other.pc = "rewrite_ast") =>
           TreeOf(heap, root) = other.tree
    /\ (Categorized /\ ~changed /\ other.pc = "rewrite_ast") =>
           summary = other.summary

\* ---------------------------------------------------------------------
\* The pipeline on parse results of at most MaxNormNodes nodes, at most
\* MaxNormNot of them NOT nodes, with the default pass limit.
InitNorm ==
    \E t \in ShapesUpTo(MaxNormNodes, MaxNormNot) :
        InitWith(t, DistinctLabels, DefaultPassLimit)

SpecNorm == InitNorm /\ [][Next]_vars

\* categorize_terms on the input tree.
InputSummary ==
    LET h0 == Store(ast0, <<>>)
    IN  categorize_terms(h0, Len(h0), <<>>, EmptyOutput)

\* C28: normalization does not change which terms are standalone or
\* excluded: categorize_terms on the returned tree gives the same standalone
\* set and the same excluded set as on the input tree, and its
\* requires_pairs set is a subset of the one of the input tree.
C28_SameCategories ==
    Categorized =>
        /\ summary.standalone = InputSummary.standalone
        /\ summary.excluded = InputSummary.excluded
        /\ summary.requires_pairs \subseteq InputSummary.requires_pairs

\* ---------------------------------------------------------------------
\* C29: no term disappears from the report: every term value that occurs in
\* the normalized tree is shown as standalone, as excluded, or as a member
\* of a pair listed under "Requires Another".
C29_EveryTermShown ==
    pc = "done" =>
        \A v \in ValuesBelow(root) :
            \/ v \in summary.standalone
            \/ v \in summary.excluded
            \/ \E ab \in ShownPairs : v \in {ab[1], ab[2]}

\* ---------------------------------------------------------------------
\* C30: the structure stays a tree: after every pass every node reachable
\* from the root, other than the root, occupies exactly one child slot of
\* the reachable nodes, so the parent map built from those slots records
\* the one parent and index of each node.
Slots(n) ==
    UNION {{<<p, i>> : i \in {j \in 1..Len(heap[p].children) :
                                  heap[p].children[j] = n}} : p \in Live}

C30_StaysTree ==
    (pc \in {"loop", "returned"} /\ passes >= 1) =>
        \A n \in Live \ {root} : Cardinality(Slots(n)) = 1

====
